---- MODULE Spec2Model ----
(***************************************************************************)
(* Contact Management System: the Contact record and the ContactManager    *)
(* store of src/src/script.ts (the compiled copy is src/unnamed/part_000). *)
(* Every handler runs to completion (single-threaded browser event loop),  *)
(* so each handler is one atomic action.                                   *)
(***************************************************************************)
EXTENDS Integers, Sequences, FiniteSets, TLC

VARIABLES
    contacts,          \* ContactManager.contacts
    filteredContacts,  \* ContactManager.filteredContacts
    currentEditId,     \* ContactManager.currentEditId
    storage,           \* localStorage slot 'contacts'
    searchInput,       \* value of the #searchInput element
    now,               \* the wall clock read by Date.now() / new Date()
    pc,                \* "constructed" before init() has run, "ready" after,
                       \* "aborted" when init() threw before bindEvents()
    last,              \* history: the handler that ran last, the store call it
                       \* made, its arguments, its result (<<>> is null/void),
                       \* whether the call found the record it was given and
                       \* whether the handler ended in an uncaught exception
    added              \* history: the records returned by the addContact calls
                       \* of this session, while the store started empty and
                       \* no update or delete has found a record

vars == <<contacts, filteredContacts, currentEditId, storage, searchInput, now, pc,
          last, added>>

-----------------------------------------------------------------------------
(* Bounds *)

MaxContacts == 2   \* addContact is not taken beyond this many records
MaxClock    == 2   \* the clock stops ticking here
FracSteps   == 1   \* distinct values of Math.random() per millisecond

-----------------------------------------------------------------------------
(* JavaScript values *)

\* null (currentEditId, find() miss); ids are non-negative numbers
Null == -1

\* a string is a tuple of one-character strings; undefined is a value no
\* string equals
Undefined == <<"undefined">>
Empty == <<>>

\* ToBoolean on a string-or-undefined
TruthyStr(s) == s # Undefined /\ s # Empty

\* ToBoolean on a number-or-null
TruthyNum(n) == n # Null /\ n # 0

\* a || b on strings
OrStr(a, b) == IF TruthyStr(a) THEN a ELSE b

\* a default parameter value: used when the argument is undefined
DefaultStr(a, d) == IF a = Undefined THEN d ELSE a

UpperChars == <<"A","B","C","D","E","F","G","H","I","J","K","L","M",
                "N","O","P","Q","R","S","T","U","V","W","X","Y","Z">>
LowerChars == <<"a","b","c","d","e","f","g","h","i","j","k","l","m",
                "n","o","p","q","r","s","t","u","v","w","x","y","z">>

LowerChar(c) ==
    IF \E i \in 1..26 : UpperChars[i] = c
    THEN LowerChars[CHOOSE i \in 1..26 : UpperChars[i] = c]
    ELSE c

UpperChar(c) ==
    IF \E i \in 1..26 : LowerChars[i] = c
    THEN UpperChars[CHOOSE i \in 1..26 : LowerChars[i] = c]
    ELSE c

\* String.prototype.toLowerCase / toUpperCase
toLowerCase(s) == [i \in 1..Len(s) |-> LowerChar(s[i])]
toUpperCase(s) == [i \in 1..Len(s) |-> UpperChar(s[i])]

\* String.prototype.includes
includes(s, t) ==
    \E k \in 0..(Len(s) - Len(t)) : \A i \in 1..Len(t) : s[k + i] = t[i]

IsSpace(c) == c = " "

\* String.prototype.trim
trim(s) ==
    IF \A i \in 1..Len(s) : IsSpace(s[i]) THEN Empty
    ELSE LET first == CHOOSE i \in 1..Len(s) :
                          ~IsSpace(s[i]) /\ \A j \in 1..(i - 1) : IsSpace(s[j])
             lst   == CHOOSE i \in 1..Len(s) :
                          ~IsSpace(s[i]) /\ \A j \in (i + 1)..Len(s) : IsSpace(s[j])
         IN  SubSeq(s, first, lst)

\* String.prototype.charAt
charAt(s, i) == IF i + 1 \in 1..Len(s) THEN <<s[i + 1]>> ELSE Empty

\* Date.prototype.toJSON (ISO-8601 text) and new Date(text)
toJSON(d) == <<"ISO", d>>
NewDate(t) == t[2]

-----------------------------------------------------------------------------
(* Contact *)

\* Date.now() + Math.random(), with the clock at t and the random draw r
NewId(t, r) == t * FracSteps + r

\* new Contact(...) with the clock at t and the random draw r
Contact(firstName, lastName, userName, phone, email, address, t, r) ==
    [id        |-> NewId(t, r),
     firstName |-> firstName,
     lastName  |-> lastName,
     userName  |-> userName,
     phone     |-> phone,
     email     |-> DefaultStr(email, Empty),
     address   |-> DefaultStr(address, Empty),
     createdAt |-> t]

getFullName(c) == c.firstName \o <<" ">> \o c.lastName

getInitials(c) == toUpperCase(charAt(c.firstName, 0) \o charAt(c.lastName, 0))

\* update() merging by presence: an empty string replaces the first name
update_byPresence(c, data) ==
    [c EXCEPT !.firstName = DefaultStr(data.firstName, c.firstName),
              !.lastName  = OrStr(data.lastName, c.lastName),
              !.userName  = OrStr(data.userName, c.userName),
              !.phone     = OrStr(data.phone, c.phone),
              !.email     = OrStr(data.email, c.email),
              !.address   = OrStr(data.address, c.address)]

\* Contact.update(data)
update(c, data) ==
    [c EXCEPT !.firstName = OrStr(data.firstName, c.firstName),
              !.lastName  = OrStr(data.lastName, c.lastName),
              !.userName  = OrStr(data.userName, c.userName),
              !.phone     = OrStr(data.phone, c.phone),
              !.email     = OrStr(data.email, c.email),
              !.address   = OrStr(data.address, c.address)]

-----------------------------------------------------------------------------
(* localStorage and JSON *)

\* localStorage.getItem on a slot that was never written
NoSnapshot == [present |-> FALSE, items |-> <<>>]

\* a slot holding text that is not JSON: getItem returns it, JSON.parse
\* throws a SyntaxError on it
CorruptSnapshot == [present |-> TRUE, items |-> <<>>, syntaxError |-> TRUE]

\* JSON.parse(stored) returns
Parses(stored) == "syntaxError" \notin DOMAIN stored

\* an empty slot of a localStorage that rejects every write (the quota of
\* the origin is used up, or storage is disabled): getItem returns null,
\* setItem throws a QuotaExceededError
FullStorage == [present |-> FALSE, items |-> <<>>, quotaExceeded |-> TRUE]

\* localStorage.setItem returns
Writable(stored) == "quotaExceeded" \notin DOMAIN stored

\* JSON.stringify of one Contact: the Date becomes its ISO text
stringifyContact(c) ==
    [id        |-> c.id,
     firstName |-> c.firstName,
     lastName  |-> c.lastName,
     userName  |-> c.userName,
     phone     |-> c.phone,
     email     |-> c.email,
     address   |-> c.address,
     createdAt |-> toJSON(c.createdAt)]

\* JSON.stringify(this.contacts)
stringify(cs) == [i \in 1..Len(cs) |-> stringifyContact(cs[i])]

\* saveToStorage() writing the filtered view the handler started with
saveToStorage_filtered(cs) ==
    [present |-> TRUE, items |-> stringify(filteredContacts)]

\* saveToStorage(): the slot after localStorage.setItem('contacts', ...)
saveToStorage(cs) == [present |-> TRUE, items |-> stringify(cs)]

\* the map callback keeping the id and the timestamp of the constructor
reviveContact_regenerated(data, t, r) ==
    Contact(data.firstName, data.lastName, OrStr(data.userName, Empty),
            data.phone, data.email, data.address, t, r)

\* the map callback of loadContacts(): one stored object to a Contact; the
\* constructor runs with the clock at t and the draw r, then id and
\* createdAt are overwritten from the stored object
reviveContact(data, t, r) ==
    LET contact == Contact(data.firstName, data.lastName,
                           OrStr(data.userName, Empty), data.phone,
                           data.email, data.address, t, r)
    IN  [contact EXCEPT !.id = data.id, !.createdAt = NewDate(data.createdAt)]

\* the value loadContacts() leaves in this.contacts
loadedContacts(stored, cs, t, r) ==
    IF stored.present
    THEN [i \in 1..Len(stored.items) |-> reviveContact(stored.items[i], t, r)]
    ELSE cs

-----------------------------------------------------------------------------
(* Array helpers *)

\* this.contacts.findIndex(c => c.id === id), 1-based; 0 when there is none
findIndex(cs, id) ==
    IF \E i \in 1..Len(cs) : cs[i].id = id
    THEN CHOOSE i \in 1..Len(cs) :
             cs[i].id = id /\ \A j \in 1..(i - 1) : cs[j].id # id
    ELSE 0

\* this.contacts.splice(index, 1)
splice(cs, index) == SubSeq(cs, 1, index - 1) \o SubSeq(cs, index + 1, Len(cs))

\* filter() matching the phone case-insensitively
RECURSIVE filter_lowerPhone(_, _)
filter_lowerPhone(cs, term) ==
    IF cs = <<>> THEN <<>>
    ELSE LET contact == Head(cs)
             keep == \/ includes(toLowerCase(contact.firstName), term)
                     \/ includes(toLowerCase(contact.lastName), term)
                     \/ includes(toLowerCase(contact.userName), term)
                     \/ includes(toLowerCase(contact.phone), term)
                     \/ (TruthyStr(contact.email)
                           /\ includes(toLowerCase(contact.email), term))
         IN  (IF keep THEN <<contact>> ELSE <<>>)
                 \o filter_lowerPhone(Tail(cs), term)

\* Array.prototype.filter
RECURSIVE filter(_, _)
filter(cs, term) ==
    IF cs = <<>> THEN <<>>
    ELSE LET contact == Head(cs)
             keep == \/ includes(toLowerCase(contact.firstName), term)
                     \/ includes(toLowerCase(contact.lastName), term)
                     \/ includes(toLowerCase(contact.userName), term)
                     \/ includes(contact.phone, term)
                     \/ (TruthyStr(contact.email)
                           /\ includes(toLowerCase(contact.email), term))
         IN  (IF keep THEN <<contact>> ELSE <<>>) \o filter(Tail(cs), term)

\* the value searchContacts(query) leaves in this.filteredContacts
searchResult(cs, query) ==
    IF ~TruthyStr(trim(query)) THEN cs
    ELSE filter(cs, toLowerCase(query))

-----------------------------------------------------------------------------
(* Inputs *)

Jane == [firstName |-> <<"J","a","n","e">>, lastName |-> <<"D","o","e">>,
         userName |-> <<"j","d","o","e">>, phone |-> <<"5","-","1">>,
         email |-> Undefined, address |-> Undefined]

Alice == [firstName |-> <<"a","l","i","c","e">>, lastName |-> <<"S","m","i","t","h">>,
          userName |-> <<"b","s","m","i","t","h">>, phone |-> <<"5","X">>,
          email |-> <<"B","@","x">>, address |-> <<"R","d">>]

\* the form data handed to addContact
AddForms == {Jane, Alice}

\* update payloads: one with an empty and four absent fields (merged into a
\* record it changes the last name only), one with all six fields non-empty
Doer == [firstName |-> Empty, lastName |-> <<"D","o","e","r">>,
         userName |-> Undefined, phone |-> Undefined,
         email |-> Undefined, address |-> Undefined]

UpdateForms == {Doer, Alice}

\* what the user typed in the modal form when the submit event fires
RawValid == [firstName |-> <<" ","J","a","n","e"," ">>, lastName |-> <<"D","o","e">>,
             userName |-> <<"j","d","o","e"," ">>, phone |-> <<"5","-","1">>,
             email |-> Empty, address |-> <<" ">>]

RawBlank == [firstName |-> <<" "," ">>, lastName |-> <<"D","o","e">>,
             userName |-> <<"j","d","o","e">>, phone |-> <<"5","-","1">>,
             email |-> Empty, address |-> Empty]

RawNoPhone == [firstName |-> <<"J","a","n","e">>, lastName |-> <<"D","o","e">>,
               userName |-> <<"j","d","o","e">>, phone |-> Empty,
               email |-> Empty, address |-> Empty]

RawForms == {RawValid, RawBlank, RawNoPhone}

\* what the user typed in the search box
Queries == {Empty, <<" ">>, <<"A","L","I","C","E">>, <<"5","X">>,
            <<"B","@">>, <<"-">>}

\* ids handed to updateContact, deleteContact, openEditModal, confirmDelete:
\* every id in the store, and two ids that may be stale or never issued
IdArgs == {contacts[i].id : i \in 1..Len(contacts)} \cup {0, NewId(1, 0)}

\* draws of Math.random(), in steps of 1/FracSteps
Draws == 0..(FracSteps - 1)

-----------------------------------------------------------------------------
(* ContactManager *)

\* the value of added while the history is not tracked
NotTracked == [ok |-> FALSE, recs |-> <<>>]

Init ==
    /\ contacts = <<>>
    /\ filteredContacts = <<>>
    /\ currentEditId = Null
    /\ storage = NoSnapshot
    /\ searchInput = Empty
    /\ now = 1
    /\ pc = "constructed"
    /\ last = [op |-> "constructor", call |-> "none", id |-> Null,
               data |-> Empty, ret |-> <<>>, found |-> FALSE,
                threw |-> FALSE]
    /\ added = NotTracked

\* the clock advances between handlers
Tick ==
    /\ now < MaxClock
    /\ now' = now + 1
    /\ last' = [op |-> "tick", call |-> "none", id |-> Null,
                data |-> Empty, ret |-> <<>>, found |-> FALSE,
                threw |-> FALSE]
    /\ UNCHANGED <<contacts, filteredContacts, currentEditId, storage, searchInput, pc, added>>

\* init(): loadContacts(), bindEvents(), render()
loadContacts ==
    /\ pc = "constructed"
    /\ IF storage.present /\ ~Parses(storage)
       THEN \* JSON.parse throws out of loadContacts() and init()
            /\ pc' = "aborted"
            /\ last' = [op |-> "loadContacts", call |-> "none", id |-> Null,
                        data |-> Empty, ret |-> <<>>, found |-> FALSE,
                        threw |-> TRUE]
            /\ added' = NotTracked
            /\ UNCHANGED <<contacts, filteredContacts>>
       ELSE /\ \E r \in Draws :
                  contacts' = loadedContacts(storage, contacts, now, r)
            /\ filteredContacts' = contacts'
            /\ pc' = "ready"
            /\ last' = [op |-> "loadContacts", call |-> "none", id |-> Null,
                        data |-> Empty, ret |-> <<>>, found |-> FALSE,
                        threw |-> FALSE]
            /\ added' = [ok |-> contacts' = <<>>, recs |-> <<>>]
    /\ UNCHANGED <<currentEditId, storage, searchInput, now>>

\* addContact() applying the query of the search box to the new list
addContactBody_reapply(op, id, contactData) ==
    \E r \in Draws :
        LET contact == Contact(contactData.firstName, contactData.lastName,
                               contactData.userName, contactData.phone,
                               OrStr(contactData.email, Empty),
                               OrStr(contactData.address, Empty), now, r)
        IN  /\ contacts' = Append(contacts, contact)
            /\ filteredContacts' = searchResult(contacts', searchInput)
            /\ storage' = saveToStorage(contacts')
            /\ last' = [op |-> op, call |-> "addContact", id |-> id,
                        data |-> contactData, ret |-> <<contact>>, found |-> TRUE,
                        threw |-> FALSE]
            /\ added' = IF added.ok
                        THEN [added EXCEPT !.recs = Append(@, contact)]
                        ELSE added

\* the body of addContact(contactData), run by the handler op
addContactBody(op, id, contactData) ==
    \E r \in Draws :
        LET contact == Contact(contactData.firstName, contactData.lastName,
                               contactData.userName, contactData.phone,
                               OrStr(contactData.email, Empty),
                               OrStr(contactData.address, Empty), now, r)
        IN  /\ contacts' = Append(contacts, contact)
            /\ filteredContacts' = contacts'
            /\ storage' = saveToStorage(contacts')
            /\ last' = [op |-> op, call |-> "addContact", id |-> id,
                        data |-> contactData, ret |-> <<contact>>, found |-> TRUE,
                threw |-> FALSE]
            /\ added' = IF added.ok
                        THEN [added EXCEPT !.recs = Append(@, contact)]
                        ELSE added

\* updateContact() refreshing the view and the snapshot on a miss too
updateContactBody_refreshOnMiss(op, id, contactData) ==
    LET index == findIndex(contacts, id) IN
    /\ contacts' = IF index # 0
                   THEN [contacts EXCEPT ![index] = update(contacts[index], contactData)]
                   ELSE contacts
    /\ filteredContacts' = contacts'
    /\ storage' = saveToStorage(contacts')
    /\ last' = [op |-> op, call |-> "updateContact", id |-> id,
                data |-> contactData,
                ret |-> IF index # 0 THEN <<contacts'[index]>> ELSE <<>>,
                found |-> index # 0,
                threw |-> FALSE]
    /\ added' = IF index # 0 THEN NotTracked ELSE added

\* updateContact() moving the updated record to the end of the list
updateContactBody_moveToEnd(op, id, contactData) ==
    LET index == findIndex(contacts, id) IN
    IF index # 0
    THEN LET contact == update(contacts[index], contactData)
         IN  /\ contacts' = Append(SubSeq(contacts, 1, index - 1)
                                     \o SubSeq(contacts, index + 1, Len(contacts)),
                                   contact)
             /\ filteredContacts' = contacts'
             /\ storage' = saveToStorage(contacts')
             /\ last' = [op |-> op, call |-> "updateContact", id |-> id,
                         data |-> contactData, ret |-> <<contact>>, found |-> TRUE,
                threw |-> FALSE]
             /\ added' = NotTracked
    ELSE /\ last' = [op |-> op, call |-> "updateContact", id |-> id,
                     data |-> contactData, ret |-> <<>>, found |-> FALSE,
                threw |-> FALSE]
         /\ UNCHANGED <<contacts, filteredContacts, storage, added>>

\* the body of updateContact(id, contactData), run by the handler op
updateContactBody(op, id, contactData) ==
    LET index == findIndex(contacts, id) IN
    IF index # 0
    THEN LET contact == update(contacts[index], contactData)
         IN  /\ contacts' = [contacts EXCEPT ![index] = contact]
             /\ filteredContacts' = contacts'
             /\ storage' = saveToStorage(contacts')
             /\ last' = [op |-> op, call |-> "updateContact", id |-> id,
                         data |-> contactData, ret |-> <<contact>>, found |-> TRUE,
                threw |-> FALSE]
             /\ added' = NotTracked
    ELSE /\ last' = [op |-> op, call |-> "updateContact", id |-> id,
                     data |-> contactData, ret |-> <<>>, found |-> FALSE,
                threw |-> FALSE]
         /\ UNCHANGED <<contacts, filteredContacts, storage, added>>

\* deleteContact() refreshing the view on a miss too
deleteContactBody_refreshOnMiss(op, id) ==
    LET index == findIndex(contacts, id) IN
    /\ contacts' = IF index # 0 THEN splice(contacts, index) ELSE contacts
    /\ filteredContacts' = contacts'
    /\ storage' = IF index # 0 THEN saveToStorage(contacts') ELSE storage
    /\ last' = [op |-> op, call |-> "deleteContact", id |-> id,
                data |-> Empty, ret |-> <<index # 0>>, found |-> index # 0,
                threw |-> FALSE]
    /\ added' = IF index # 0 THEN NotTracked ELSE added

\* deleteContact() leaving the view as it was
deleteContactBody_staleView(op, id) ==
    LET index == findIndex(contacts, id) IN
    IF index # 0
    THEN /\ contacts' = splice(contacts, index)
         /\ storage' = saveToStorage(contacts')
         /\ last' = [op |-> op, call |-> "deleteContact", id |-> id,
                     data |-> Empty, ret |-> <<TRUE>>, found |-> TRUE,
                     threw |-> FALSE]
         /\ added' = NotTracked
         /\ UNCHANGED filteredContacts
    ELSE /\ last' = [op |-> op, call |-> "deleteContact", id |-> id,
                     data |-> Empty, ret |-> <<FALSE>>, found |-> FALSE,
                     threw |-> FALSE]
         /\ UNCHANGED <<contacts, filteredContacts, storage, added>>

\* the body of deleteContact(id), run by the handler op
deleteContactBody(op, id) ==
    LET index == findIndex(contacts, id) IN
    IF index # 0
    THEN /\ contacts' = splice(contacts, index)
         /\ filteredContacts' = contacts'
         /\ storage' = saveToStorage(contacts')
         /\ last' = [op |-> op, call |-> "deleteContact", id |-> id,
                     data |-> Empty, ret |-> <<TRUE>>, found |-> TRUE,
                threw |-> FALSE]
         /\ added' = NotTracked
    ELSE /\ last' = [op |-> op, call |-> "deleteContact", id |-> id,
                     data |-> Empty, ret |-> <<FALSE>>, found |-> FALSE,
                threw |-> FALSE]
         /\ UNCHANGED <<contacts, filteredContacts, storage, added>>

addContact(contactData) ==
    /\ pc = "ready"
    /\ Len(contacts) < MaxContacts
    /\ addContactBody("addContact", Null, contactData)
    /\ UNCHANGED <<currentEditId, searchInput, now, pc>>

updateContact(id, contactData) ==
    /\ pc = "ready"
    /\ updateContactBody("updateContact", id, contactData)
    /\ UNCHANGED <<currentEditId, searchInput, now, pc>>

deleteContact(id) ==
    /\ pc = "ready"
    /\ deleteContactBody("deleteContact", id)
    /\ UNCHANGED <<currentEditId, searchInput, now, pc>>

\* searchContacts() filtering the authoritative list itself
searchContacts_destructive(query) ==
    /\ pc = "ready"
    /\ searchInput' = query
    /\ filteredContacts' = searchResult(contacts, query)
    /\ contacts' = filteredContacts'
    /\ last' = [op |-> "searchContacts", call |-> "searchContacts", id |-> Null,
                data |-> query, ret |-> <<>>, found |-> FALSE,
                threw |-> FALSE]
    /\ UNCHANGED <<currentEditId, storage, now, pc, added>>

\* the 'input' listener of #searchInput: searchContacts(target.value)
searchContacts(query) ==
    /\ pc = "ready"
    /\ searchInput' = query
    /\ filteredContacts' = searchResult(contacts, query)
    /\ last' = [op |-> "searchContacts", call |-> "searchContacts", id |-> Null,
                data |-> query, ret |-> <<>>, found |-> FALSE,
                threw |-> FALSE]
    /\ UNCHANGED <<contacts, currentEditId, storage, now, pc, added>>

\* the form data saveContact() builds from the modal's fields
trimForm(raw) ==
    [firstName |-> trim(raw.firstName), lastName |-> trim(raw.lastName),
     userName |-> trim(raw.userName), phone |-> trim(raw.phone),
     email |-> trim(raw.email), address |-> trim(raw.address)]

\* saveContact() closing the modal when the validation fails
saveContact_closeOnInvalid(raw) ==
    LET formData == trimForm(raw) IN
    /\ pc = "ready"
    /\ IF \/ ~TruthyStr(formData.firstName) \/ ~TruthyStr(formData.lastName)
          \/ ~TruthyStr(formData.userName) \/ ~TruthyStr(formData.phone)
       THEN /\ last' = [op |-> "saveContact", call |-> "none", id |-> currentEditId,
                        data |-> formData, ret |-> <<>>, found |-> FALSE,
                        threw |-> FALSE]
            /\ currentEditId' = Null
            /\ UNCHANGED <<contacts, filteredContacts, storage, added>>
       ELSE /\ IF TruthyNum(currentEditId)
               THEN updateContactBody("saveContact", currentEditId, formData)
               ELSE /\ Len(contacts) < MaxContacts
                    /\ addContactBody("saveContact", currentEditId, formData)
            /\ currentEditId' = Null
    /\ UNCHANGED <<searchInput, now, pc>>

\* the 'submit' listener of #contactForm: saveContact()
saveContact(raw) ==
    LET formData == trimForm(raw) IN
    /\ pc = "ready"
    /\ IF \/ ~TruthyStr(formData.firstName) \/ ~TruthyStr(formData.lastName)
          \/ ~TruthyStr(formData.userName) \/ ~TruthyStr(formData.phone)
       THEN /\ last' = [op |-> "saveContact", call |-> "none", id |-> currentEditId,
                        data |-> formData, ret |-> <<>>, found |-> FALSE,
                threw |-> FALSE]
            /\ UNCHANGED <<contacts, filteredContacts, currentEditId, storage, added>>
       ELSE /\ IF TruthyNum(currentEditId)
               THEN updateContactBody("saveContact", currentEditId, formData)
               ELSE /\ Len(contacts) < MaxContacts
                    /\ addContactBody("saveContact", currentEditId, formData)
            /\ currentEditId' = Null
    /\ UNCHANGED <<searchInput, now, pc>>

\* openAddModal() leaving the edit id of the open session in place
openAddModal_keepsEditId ==
    /\ pc \in {"ready", "aborted"}
    /\ last' = [op |-> "openAddModal", call |-> "none", id |-> currentEditId,
                data |-> Empty, ret |-> <<>>, found |-> FALSE,
                threw |-> FALSE]
    /\ UNCHANGED <<contacts, filteredContacts, currentEditId, storage, searchInput,
                   now, pc, added>>

\* the global openAddModal() of the page; it needs no bound listener
openAddModal ==
    /\ pc \in {"ready", "aborted"}
    /\ currentEditId' = Null
    /\ last' = [op |-> "openAddModal", call |-> "none", id |-> currentEditId,
                data |-> Empty, ret |-> <<>>, found |-> FALSE,
                threw |-> FALSE]
    /\ UNCHANGED <<contacts, filteredContacts, storage, searchInput, now, pc, added>>

openEditModal(id) ==
    /\ pc = "ready"
    /\ currentEditId' = IF findIndex(contacts, id) = 0 THEN currentEditId ELSE id
    /\ last' = [op |-> "openEditModal", call |-> "none", id |-> id,
                data |-> Empty, ret |-> <<>>, found |-> FALSE,
                threw |-> FALSE]
    /\ UNCHANGED <<contacts, filteredContacts, storage, searchInput, now, pc, added>>

\* closeModal() hiding the modal without ending the edit session
closeModal_keepsEditId ==
    /\ pc \in {"ready", "aborted"}
    /\ last' = [op |-> "closeModal", call |-> "none", id |-> currentEditId,
                data |-> Empty, ret |-> <<>>, found |-> FALSE,
                threw |-> FALSE]
    /\ UNCHANGED <<contacts, filteredContacts, currentEditId, storage, searchInput,
                   now, pc, added>>

\* the global closeModal() of the page and the overlay click listener
closeModal ==
    /\ pc \in {"ready", "aborted"}
    /\ currentEditId' = Null
    /\ last' = [op |-> "closeModal", call |-> "none", id |-> currentEditId,
                data |-> Empty, ret |-> <<>>, found |-> FALSE,
                threw |-> FALSE]
    /\ UNCHANGED <<contacts, filteredContacts, storage, searchInput, now, pc, added>>

\* confirmDelete(id); ok is the user's answer to confirm()
confirmDelete(id, ok) ==
    /\ pc = "ready"
    /\ IF findIndex(contacts, id) # 0 /\ ok
       THEN deleteContactBody("confirmDelete", id)
       ELSE /\ last' = [op |-> "confirmDelete", call |-> "none", id |-> id,
                        data |-> Empty, ret |-> <<>>, found |-> FALSE,
                threw |-> FALSE]
            /\ UNCHANGED <<contacts, filteredContacts, storage, added>>
    /\ UNCHANGED <<currentEditId, searchInput, now, pc>>

\* the page is reloaded: a new ContactManager over the same localStorage
Reload ==
    /\ pc \in {"ready", "aborted"}
    /\ contacts' = <<>>
    /\ filteredContacts' = <<>>
    /\ currentEditId' = Null
    /\ searchInput' = Empty
    /\ pc' = "constructed"
    /\ last' = [op |-> "constructor", call |-> "none", id |-> Null,
                data |-> Empty, ret |-> <<>>, found |-> FALSE,
                threw |-> FALSE]
    /\ added' = NotTracked
    /\ UNCHANGED <<storage, now>>

Next ==
    \/ Tick
    \/ loadContacts
    \/ \E contactData \in AddForms : addContact(contactData)
    \/ \E id \in IdArgs, contactData \in UpdateForms : updateContact(id, contactData)
    \/ \E id \in IdArgs : deleteContact(id)
    \/ \E query \in Queries : searchContacts(query)
    \/ \E raw \in RawForms : saveContact(raw)
    \/ openAddModal
    \/ \E id \in IdArgs : openEditModal(id)
    \/ closeModal
    \/ \E id \in IdArgs, ok \in BOOLEAN : confirmDelete(id, ok)
    \/ Reload

Spec == Init /\ [][Next]_vars

-----------------------------------------------------------------------------
(* ContactManager over a localStorage that rejects writes *)

\* addContact(contactData) when saveToStorage() throws: the push and the
\* view refresh are done, render() and the return are not reached
addContactThrowsBody(op, id, contactData) ==
    \E r \in Draws :
        LET contact == Contact(contactData.firstName, contactData.lastName,
                               contactData.userName, contactData.phone,
                               OrStr(contactData.email, Empty),
                               OrStr(contactData.address, Empty), now, r)
        IN  /\ contacts' = Append(contacts, contact)
            /\ filteredContacts' = contacts'
            /\ last' = [op |-> op, call |-> "addContact", id |-> id,
                        data |-> contactData, ret |-> <<>>, found |-> TRUE,
                        threw |-> TRUE]
            /\ added' = NotTracked
            /\ UNCHANGED storage

\* updateContact(id, contactData) that finds its record when
\* saveToStorage() throws
updateContactThrowsBody(op, id, contactData) ==
    LET index == findIndex(contacts, id) IN
    /\ index # 0
    /\ contacts' = [contacts EXCEPT ![index] = update(contacts[index], contactData)]
    /\ filteredContacts' = contacts'
    /\ last' = [op |-> op, call |-> "updateContact", id |-> id,
                data |-> contactData, ret |-> <<>>, found |-> TRUE,
                threw |-> TRUE]
    /\ added' = NotTracked
    /\ UNCHANGED storage

\* deleteContact(id) that finds its record when saveToStorage() throws
deleteContactThrowsBody(op, id) ==
    LET index == findIndex(contacts, id) IN
    /\ index # 0
    /\ contacts' = splice(contacts, index)
    /\ filteredContacts' = contacts'
    /\ last' = [op |-> op, call |-> "deleteContact", id |-> id,
                data |-> Empty, ret |-> <<>>, found |-> TRUE,
                threw |-> TRUE]
    /\ added' = NotTracked
    /\ UNCHANGED storage

addContactThrows(contactData) ==
    /\ pc = "ready"
    /\ ~Writable(storage)
    /\ Len(contacts) < MaxContacts
    /\ addContactThrowsBody("addContact", Null, contactData)
    /\ UNCHANGED <<currentEditId, searchInput, now, pc>>

updateContactThrows(id, contactData) ==
    /\ pc = "ready"
    /\ ~Writable(storage)
    /\ updateContactThrowsBody("updateContact", id, contactData)
    /\ UNCHANGED <<currentEditId, searchInput, now, pc>>

deleteContactThrows(id) ==
    /\ pc = "ready"
    /\ ~Writable(storage)
    /\ deleteContactThrowsBody("deleteContact", id)
    /\ UNCHANGED <<currentEditId, searchInput, now, pc>>

\* saveContact() with valid form data when the store call throws: the
\* exception leaves the listener before currentEditId is cleared and before
\* closeModal() and resetForm()
saveContactThrows(raw) ==
    LET formData == trimForm(raw) IN
    /\ pc = "ready"
    /\ ~Writable(storage)
    /\ TruthyStr(formData.firstName) /\ TruthyStr(formData.lastName)
    /\ TruthyStr(formData.userName) /\ TruthyStr(formData.phone)
    /\ IF TruthyNum(currentEditId)
       THEN updateContactThrowsBody("saveContact", currentEditId, formData)
       ELSE /\ Len(contacts) < MaxContacts
            /\ addContactThrowsBody("saveContact", currentEditId, formData)
    /\ UNCHANGED <<currentEditId, searchInput, now, pc>>

\* confirmDelete(id), confirmed by the user, when deleteContact() throws
confirmDeleteThrows(id) ==
    /\ pc = "ready"
    /\ ~Writable(storage)
    /\ deleteContactThrowsBody("confirmDelete", id)
    /\ UNCHANGED <<currentEditId, searchInput, now, pc>>

\* the last handler wrote the snapshot
Wrote ==
    /\ last.call \in {"addContact", "updateContact", "deleteContact"}
    /\ last.found
    /\ ~last.threw

InitFull ==
    /\ contacts = <<>>
    /\ filteredContacts = <<>>
    /\ currentEditId = Null
    /\ storage \in {NoSnapshot, FullStorage}
    /\ searchInput = Empty
    /\ now = 1
    /\ pc = "constructed"
    /\ last = [op |-> "constructor", call |-> "none", id |-> Null,
               data |-> Empty, ret |-> <<>>, found |-> FALSE,
                threw |-> FALSE]
    /\ added = NotTracked

\* a handler writes the snapshot only where the storage accepts the write
NextFull ==
    \/ Next /\ (Wrote' => Writable(storage))
    \/ \E contactData \in AddForms : addContactThrows(contactData)
    \/ \E id \in IdArgs, contactData \in UpdateForms : updateContactThrows(id, contactData)
    \/ \E id \in IdArgs : deleteContactThrows(id)
    \/ \E raw \in RawForms : saveContactThrows(raw)
    \/ \E id \in IdArgs : confirmDeleteThrows(id)

SpecFull == InitFull /\ [][NextFull]_vars

-----------------------------------------------------------------------------
(* ContactManager started over a snapshot it did not write *)

\* a snapshot in the persistence format (an array of contact objects with a
\* numeric id) written by another writer: its one record carries the id 0
ForeignSnapshot ==
    [present |-> TRUE,
     items |-> <<[id |-> 0,
                  firstName |-> <<"a","l","i","c","e">>,
                  lastName |-> <<"S","m","i","t","h">>,
                  userName |-> <<"b","s","m","i","t","h">>,
                  phone |-> <<"5","X">>,
                  email |-> <<"B","@","x">>,
                  address |-> <<"R","d">>,
                  createdAt |-> toJSON(1)]>>]

InitForeign ==
    /\ contacts = <<>>
    /\ filteredContacts = <<>>
    /\ currentEditId = Null
    /\ storage \in {CorruptSnapshot, ForeignSnapshot}
    /\ searchInput = Empty
    /\ now = 1
    /\ pc = "constructed"
    /\ last = [op |-> "constructor", call |-> "none", id |-> Null,
               data |-> Empty, ret |-> <<>>, found |-> FALSE,
                threw |-> FALSE]
    /\ added = NotTracked

SpecForeign == InitForeign /\ [][Next]_vars

-----------------------------------------------------------------------------
(* Properties *)

DataFields == {"firstName", "lastName", "userName", "phone", "email", "address"}

\* the store call of the last handler found the record it was given
LastFound(call) == last.call = call /\ last.found

\* C1: in every reachable state, any two records at different positions of
\* contacts have different ids.
C1_UniqueIds ==
    \A i, j \in 1..Len(contacts) : i # j => contacts[i].id # contacts[j].id

\* C2: right after an addContact, an updateContact that found its id and a
\* deleteContact that found its id, the persisted snapshot is the
\* serialization of the full contacts sequence; and once the snapshot equals
\* contacts it stays equal to it across every handler of the session.
C2_Persisted ==
    /\ []((\/ last.call = "addContact"
           \/ LastFound("updateContact")
           \/ LastFound("deleteContact"))
              => storage = saveToStorage(contacts))
    /\ [][pc = "ready" /\ pc' = "ready" /\ storage = saveToStorage(contacts)
             => storage' = saveToStorage(contacts')]_vars

\* a search filter hides a record, and the snapshot still holds every record
C2_Witness ==
    /\ pc = "ready"
    /\ Len(contacts) = 2
    /\ Len(filteredContacts) = 1
    /\ storage = saveToStorage(contacts)

\* C3: between handlers, filteredContacts is the result of applying the
\* query of the most recent search (the text in the search box) to contacts.
C3_ViewMatchesQuery ==
    pc = "ready" => filteredContacts = searchResult(contacts, searchInput)

\* the first record of cs that carries id, as a tuple; <<>> when none does
Lookup(cs, id) ==
    IF \E i \in 1..Len(cs) : cs[i].id = id
    THEN <<cs[CHOOSE i \in 1..Len(cs) :
                 cs[i].id = id /\ \A j \in 1..(i - 1) : cs[j].id # id]>>
    ELSE <<>>

\* C4: starting from an empty store, after N addContact calls and no delete,
\* contacts has length N, holds the records in the order they were added,
\* and looking up the id each add returned finds the record that add returned.
C4_AddsRetrievable ==
    added.ok =>
        /\ Len(contacts) = Len(added.recs)
        /\ contacts = added.recs
        /\ \A k \in 1..Len(added.recs) :
               Lookup(contacts, added.recs[k].id) = <<added.recs[k]>>

\* C5: a deleteContact whose id no record carries returns false and leaves
\* contacts, filteredContacts, currentEditId and the snapshot as they were.
C5_DeleteMissing ==
    [][last'.call = "deleteContact" /\ Lookup(contacts, last'.id) = <<>>
          => /\ last'.ret = <<FALSE>>
             /\ UNCHANGED <<contacts, filteredContacts, currentEditId, storage>>]_vars

\* a delete missed while a filter was active and an edit session was open
C5_Witness ==
    /\ last.call = "deleteContact"
    /\ ~last.found
    /\ last.ret = <<FALSE>>
    /\ Len(contacts) = 2
    /\ Len(filteredContacts) = 1
    /\ currentEditId # Null

\* C6: an updateContact whose id no record carries returns null and leaves
\* contacts, filteredContacts (any active filter included) and the snapshot
\* as they were.
C6_UpdateMissing ==
    [][last'.call = "updateContact" /\ Lookup(contacts, last'.id) = <<>>
          => /\ last'.ret = <<>>
             /\ UNCHANGED <<contacts, filteredContacts, storage>>]_vars

\* an update missed while a filter was active
C6_Witness ==
    /\ last.call = "updateContact"
    /\ ~last.found
    /\ last.ret = <<>>
    /\ Len(contacts) = 2
    /\ Len(filteredContacts) = 1

\* the position updateContact(id, ..) targets in cs
Target(cs, id) == CHOOSE i \in 1..Len(cs) :
                      cs[i].id = id /\ \A j \in 1..(i - 1) : cs[j].id # id

\* C7: after updateContact finds the record, each of the six data fields
\* equals the incoming value when that value is present and non-empty, and
\* the record's previous value when it is absent or the empty string.
C7_MergeByTruthiness ==
    [][last'.call = "updateContact" /\ Lookup(contacts, last'.id) # <<>>
          => LET i == Target(contacts, last'.id) IN
             /\ Len(contacts') = Len(contacts)
             /\ \A f \in DataFields :
                   contacts'[i][f] =
                       IF last'.data[f] = Undefined \/ Len(last'.data[f]) = 0
                       THEN contacts[i][f]
                       ELSE last'.data[f]]_vars

\* an update carried an empty string and a non-empty value, and the record
\* kept a field the payload did not replace
C7_Witness ==
    /\ LastFound("updateContact")
    /\ last.data.firstName = Empty
    /\ last.data.lastName # Empty
    /\ last.ret[1].firstName # Empty
    /\ last.ret[1].lastName = last.data.lastName

\* C8: updateContact changes only the six data fields of the targeted
\* record: its id, createdAt and position, the length and order of
\* contacts, and every other record stay as they were.
C8_UpdateFrame ==
    [][last'.call = "updateContact" /\ Lookup(contacts, last'.id) # <<>>
          => LET i == Target(contacts, last'.id) IN
             /\ Len(contacts') = Len(contacts)
             /\ contacts'[i].id = contacts[i].id
             /\ contacts'[i].createdAt = contacts[i].createdAt
             /\ \A j \in 1..Len(contacts) : j # i => contacts'[j] = contacts[j]]_vars

\* an update changed the first of two records
C8_Witness ==
    /\ LastFound("updateContact")
    /\ Len(contacts) = 2
    /\ contacts[1] = last.ret[1]
    /\ contacts[1].lastName = Doer.lastName
    /\ contacts[2].lastName # Doer.lastName

\* the lowercased query q is a substring of a name, of the user name, of
\* the phone as it is, or of a non-empty email
Matches(c, q) ==
    LET term == toLowerCase(q) IN
    \/ includes(toLowerCase(c.firstName), term)
    \/ includes(toLowerCase(c.lastName), term)
    \/ includes(toLowerCase(c.userName), term)
    \/ includes(c.phone, term)
    \/ (c.email # Empty /\ includes(toLowerCase(c.email), term))

\* the positions of cs that seq picks, in increasing order, when seq is a
\* subsequence of cs picked by the test
IsMatchingSubsequence(seq, cs, q) ==
    LET picked == {i \in 1..Len(cs) : Matches(cs[i], q)} IN
    /\ Len(seq) = Cardinality(picked)
    /\ \A k \in 1..Len(seq) :
          \E i \in picked :
              /\ Cardinality({j \in picked : j < i}) = k - 1
              /\ seq[k] = cs[i]

\* C9: after search(query), filteredContacts is contacts when the query is
\* empty or only whitespace, and otherwise the subsequence, in order, of
\* the records the lowercased query matches.
C9_SearchResult ==
    last.call = "searchContacts" =>
        IF \A i \in 1..Len(last.data) : last.data[i] = " "
        THEN filteredContacts = contacts
        ELSE IsMatchingSubsequence(filteredContacts, contacts, last.data)

\* the query "ALICE" found the record whose first name is "alice" and
\* dropped the other record
C9_Witness ==
    /\ last.call = "searchContacts"
    /\ last.data = <<"A","L","I","C","E">>
    /\ Len(contacts) = 2
    /\ Len(filteredContacts) = 1
    /\ filteredContacts[1].firstName = <<"a","l","i","c","e">>

\* C10: search leaves contacts, currentEditId and the snapshot as they
\* were.
C10_SearchFrame ==
    [][last'.call = "searchContacts"
          => UNCHANGED <<contacts, currentEditId, storage>>]_vars

\* a search narrowed the view of a saved store during an edit session
C10_Witness ==
    /\ last.call = "searchContacts"
    /\ Len(contacts) = 2
    /\ Len(filteredContacts) = 1
    /\ currentEditId # Null
    /\ storage = saveToStorage(contacts)

\* C11: for every store state, persisting contacts and loading the snapshot
\* into a fresh store gives back the same records in the same order, each
\* with its id, createdAt and six data fields; and right after a load from
\* a snapshot, contacts holds the ids, timestamps and fields of the snapshot
\* and filteredContacts equals contacts.
C11_RoundTrip ==
    /\ pc = "ready" =>
          \A t \in 1..MaxClock, r \in Draws :
              loadedContacts(saveToStorage(contacts), <<>>, t, r) = contacts
    /\ (last.op = "loadContacts" /\ ~last.threw /\ storage.present) =>
          /\ Len(contacts) = Len(storage.items)
          /\ \A i \in 1..Len(contacts) :
                /\ contacts[i].id = storage.items[i].id
                /\ toJSON(contacts[i].createdAt) = storage.items[i].createdAt
                /\ \A f \in DataFields : contacts[i][f] = storage.items[i][f]
          /\ filteredContacts = contacts

\* a load, later than the records were created, restored two records, the
\* first of them an updated one
C11_Witness ==
    /\ last.op = "loadContacts"
    /\ storage.present
    /\ Len(contacts) = 2
    /\ contacts[1].lastName = Doer.lastName
    /\ contacts[1].createdAt < now

\* C12: after addContact and after an updateContact that found its id,
\* filteredContacts is the full contacts sequence, whatever filter was
\* active before.
C12_FilterReset ==
    (last.call = "addContact" \/ LastFound("updateContact"))
        => filteredContacts = contacts

\* an add left the whole list in view although the query in the search box
\* does not match every record
C12_Witness ==
    /\ last.call = "addContact"
    /\ Len(contacts) = 2
    /\ filteredContacts = contacts
    /\ Len(searchResult(contacts, searchInput)) < 2

\* C13: a deleteContact whose id a record carries returns true, removes
\* exactly one record, the one found, keeps the others in order, and leaves
\* no record with that id in contacts.
C13_DeleteFound ==
    [][last'.call = "deleteContact" /\ Lookup(contacts, last'.id) # <<>>
          => LET i == Target(contacts, last'.id) IN
             /\ last'.ret = <<TRUE>>
             /\ Len(contacts') = Len(contacts) - 1
             /\ \A j \in 1..(i - 1) : contacts'[j] = contacts[j]
             /\ \A j \in (i + 1)..Len(contacts) : contacts'[j - 1] = contacts[j]
             /\ Lookup(contacts', last'.id) = <<>>]_vars

\* a required field of the form data is empty
Invalid(formData) ==
    \/ formData.firstName = Empty \/ formData.lastName = Empty
    \/ formData.userName = Empty \/ formData.phone = Empty

\* C14: a save whose form data has an empty required field after trimming
\* leaves contacts, filteredContacts, the snapshot and currentEditId as
\* they were, in Idle and in Editing(id).
C14_InvalidSave ==
    [][last'.op = "saveContact" /\ Invalid(last'.data)
          => /\ last'.call = "none"
             /\ UNCHANGED <<contacts, filteredContacts, storage, currentEditId>>]_vars

\* a save with a blank required field was refused during an edit session
\* while a filter was active
C14_Witness ==
    /\ last.op = "saveContact"
    /\ Invalid(last.data)
    /\ currentEditId # Null
    /\ Lookup(contacts, currentEditId) # <<>>
    /\ Len(filteredContacts) < Len(contacts)

\* C15: when the storage write of addContact, updateContact or
\* deleteContact fails, the failure is caught: the handler does not end in
\* an exception and returns its normal result, the in-memory change is
\* kept, filteredContacts equals contacts, and an enclosing save leaves the
\* edit session Idle.
C15_WriteFailureCaught ==
    [][(/\ ~Writable(storage)
        /\ last'.call \in {"addContact", "updateContact", "deleteContact"}
        /\ last'.found)
          => /\ ~last'.threw
             /\ last'.ret # <<>>
             /\ last'.call = "addContact" => Len(contacts') = Len(contacts) + 1
             /\ last'.call = "deleteContact" => Len(contacts') = Len(contacts) - 1
             /\ last'.call = "updateContact" =>
                    contacts'[Target(contacts, last'.id)]
                        = update(contacts[Target(contacts, last'.id)], last'.data)
             /\ filteredContacts' = contacts'
             /\ last'.op = "saveContact" => currentEditId' = Null]_vars

\* C16: a save with valid form data in Editing(id) updates the record with
\* that id and never adds: contacts keeps its length, the record with that
\* id carries the merged data and the session is Idle afterwards; a save
\* with valid data in Idle appends exactly one record.
C16_SaveInEditSession ==
    [][last'.op = "saveContact" /\ ~Invalid(last'.data)
          => IF currentEditId # Null
             THEN /\ last'.call = "updateContact"
                  /\ Len(contacts') = Len(contacts)
                  /\ Lookup(contacts, currentEditId) # <<>>
                  /\ Lookup(contacts', currentEditId)
                        = <<update(Lookup(contacts, currentEditId)[1], last'.data)>>
                  /\ currentEditId' = Null
             ELSE /\ last'.call = "addContact"
                  /\ contacts' = Append(contacts, last'.ret[1])
                  /\ currentEditId' = Null]_vars

\* C19: loading at startup always completes: init() does not end in an
\* exception and the listeners are bound; with no snapshot, and with a
\* snapshot that does not parse, the store starts with empty contacts and
\* an empty view.
C19_LoadCompletes ==
    /\ pc # "aborted"
    /\ last.op = "loadContacts" =>
          /\ ~last.threw
          /\ pc = "ready"
          /\ (~storage.present \/ ~Parses(storage)) =>
                 contacts = <<>> /\ filteredContacts = <<>>

\* C17: a cancel (closeModal) from Editing(id) leaves the session Idle and
\* contacts, filteredContacts and the snapshot as they were; and the save
\* with valid data that follows it appends a record and leaves the records
\* already in contacts, the one that was being edited included, as they were.
C17_CancelEdit ==
    /\ [][last'.op = "closeModal"
             => /\ currentEditId' = Null
                /\ UNCHANGED <<contacts, filteredContacts, storage>>]_vars
    /\ [][last.op = "closeModal" /\ last'.op = "saveContact" /\ ~Invalid(last'.data)
             => /\ last'.call = "addContact"
                /\ Len(contacts') = Len(contacts) + 1
                /\ SubSeq(contacts', 1, Len(contacts)) = contacts]_vars

\* an edit session on a record of the store was cancelled, and a save can
\* follow
C17_Witness ==
    /\ last.op = "closeModal"
    /\ last.id # Null
    /\ Lookup(contacts, last.id) # <<>>
    /\ currentEditId = Null
    /\ Len(contacts) < MaxContacts

\* C18: openAddModal from any session state, Editing(id) included, clears
\* the edit id; the save with valid data that follows it appends a record
\* and leaves the records already in contacts, the one that was being edited
\* included, as they were.
C18_EnterAddMode ==
    /\ [][last'.op = "openAddModal"
             => /\ currentEditId' = Null
                /\ UNCHANGED <<contacts, filteredContacts, storage>>]_vars
    /\ [][last.op = "openAddModal" /\ last'.op = "saveContact" /\ ~Invalid(last'.data)
             => /\ last'.call = "addContact"
                /\ Len(contacts') = Len(contacts) + 1
                /\ SubSeq(contacts', 1, Len(contacts)) = contacts]_vars

\* add mode was entered during an edit session on a record of the store,
\* and a save can follow
C18_Witness ==
    /\ last.op = "openAddModal"
    /\ last.id # Null
    /\ Lookup(contacts, last.id) # <<>>
    /\ currentEditId = Null
    /\ Len(contacts) < MaxContacts

\* view is cs with some positions left out: the records of view are records
\* of cs at increasing positions
RECURSIVE IsSubsequence(_, _)
IsSubsequence(view, cs) ==
    IF view = <<>> THEN TRUE
    ELSE IF cs = <<>> THEN FALSE
    ELSE IF Head(view) = Head(cs) /\ IsSubsequence(Tail(view), Tail(cs)) THEN TRUE
    ELSE IsSubsequence(view, Tail(cs))

\* C20: between handlers, filteredContacts is an ordered subsequence of
\* contacts: each record of the view is a record of contacts at a position
\* of its own, in the order of contacts.
C20_ViewIsSubsequence == IsSubsequence(filteredContacts, contacts)

\* a delete refreshed the view while the search box held a query that
\* hides a record of the store
C20_Witness ==
    /\ LastFound("deleteContact")
    /\ searchInput # Empty
    /\ Len(searchResult(contacts, searchInput)) < Len(contacts)
    /\ filteredContacts = contacts

\* C21: whenever the session is Editing(id), a record with that id is in
\* contacts; and a save with valid form data in an edit session is never
\* lost: it changes a record of contacts or appends one.
C21_EditTargetExists ==
    /\ [](currentEditId # Null => Lookup(contacts, currentEditId) # <<>>)
    /\ [][(last'.op = "saveContact" /\ ~Invalid(last'.data) /\ currentEditId # Null)
             => last'.found]_vars

====
